---------------------------- MODULE Spec2Model ----------------------------
(***************************************************************************)
(* Desired-state reconciliation in the gce module and the four kubernetes  *)
(* modules (namespace, pod, replication_controller, service).              *)
(*                                                                         *)
(* One invocation of one module is one behaviour: Init fixes the module,   *)
(* its parameters and the remote system's contents; every action is one    *)
(* step of the module's code up to and including its next remote call.     *)
(* The remote libraries (libcloud's GCE driver, KubernetesClient) are the  *)
(* environment: each remote call answers from the remote contents or, as a *)
(* nondeterministic choice, fails.                                         *)
(***************************************************************************)
EXTENDS Integers, Sequences, FiniteSets, TLC

(***************************************************************************)
(* Bounds of the model.                                                    *)
(***************************************************************************)
MaxNames == 2   \* longest instance_names list of a batch invocation
MaxDisks == 1   \* longest disks list of a gce invocation

(***************************************************************************)
(* Values.                                                                 *)
(***************************************************************************)
None == "None"                     \* Python's None
Names == {"foo", "bar"}            \* resource names
DiskNames == {"d1"}                \* persistent disk names
Modules == {"gce", "kubernetes_namespace", "kubernetes_pod",
            "kubernetes_replication_controller", "kubernetes_service"}
KubeModules == Modules \ {"gce"}

\* gce.py main(): state = dict(choices=[...], default='present')
GceStates == {"active", "present", "absent", "deleted"}
\* kubernetes_*.py main(): state = dict(default='present', choices=[...])
KubeStates == {"absent", "present"}

RECURSIVE SeqsUpTo(_, _)
SeqsUpTo(S, n) ==
    IF n = 0 THEN {<<>>}
    ELSE LET shorter == SeqsUpTo(S, n - 1)
         IN  shorter \cup {Append(s, x) : s \in {t \in shorter : Len(t) = n - 1}, x \in S}

(***************************************************************************)
(* Strings of the instance_names parameter are sequences of tokens: a name *)
(* of Names, "," or " ".  Split and Strip are str.split(',') and           *)
(* str.strip() on such sequences.                                          *)
(***************************************************************************)
RECURSIVE Split(_)
Split(s) ==
    IF \A i \in 1..Len(s) : s[i] # ","
    THEN <<s>>
    ELSE LET k == CHOOSE i \in 1..Len(s) : s[i] = "," /\ \A j \in 1..(i - 1) : s[j] # ","
         IN  <<SubSeq(s, 1, k - 1)>> \o Split(SubSeq(s, k + 1, Len(s)))

RECURSIVE Strip(_)
Strip(s) ==
    IF Len(s) = 0 THEN s
    ELSE IF s[1] = " " THEN Strip(Tail(s))
    ELSE IF s[Len(s)] = " " THEN Strip(SubSeq(s, 1, Len(s) - 1))
    ELSE s

\* The text of a stripped piece: the empty string, or its one name token.
Text(piece) == IF Len(piece) = 0 THEN "" ELSE piece[1]

RECURSIVE Join(_, _)
Join(names, sep) ==
    IF Len(names) = 0 THEN <<>>
    ELSE IF Len(names) = 1 THEN <<names[1]>>
    ELSE <<names[1]>> \o sep \o Join(Tail(names), sep)

\* execute(): instance_names from the instance_names parameter
ParseInstanceNames(p) ==
    IF p.t = "list" THEN p.v
    ELSE IF p.t = "str"
         THEN [i \in 1..Len(Split(p.v)) |-> Text(Strip(Split(p.v)[i]))]
         ELSE <<>>

\* execute(): state in ['absent', 'deleted'] / state in ['active', 'present']
IsAbsentState(s) == s \in {"absent", "deleted"}
IsPresentState(s) == s \in {"active", "present"}

(***************************************************************************)
(* Parameters.                                                             *)
(***************************************************************************)
NoNames == [t |-> "none", v |-> <<>>]
NameLists == {[t |-> "list", v |-> l] : l \in SeqsUpTo(Names, MaxNames)}
NameStrings ==
    {[t |-> "str", v |-> Join(l, sep)] :
        l \in SeqsUpTo(Names, MaxNames) \ {<<>>}, sep \in {<<",">>, <<",", " ">>}}

\* The metadata parameter: None, or text that ast.literal_eval reads as a
\* dict, reads as a list, rejects (ValueError), or cannot parse (SyntaxError).
MetadataTexts == {None, "{'db': 'postgres'}", "['db']", "not-a-dict", "{'db': "}
literal_eval(text) ==
    CASE text = "{'db': 'postgres'}" -> "dict"
      [] text = "['db']"             -> "list"
      [] text = "not-a-dict"         -> "ValueError"
      [] OTHER                       -> "SyntaxError"

\* cleanup_metadata(): "ok" or the message handed to fail_json
cleanup_metadata(metadata) ==
    IF metadata = None THEN "ok"
    ELSE CASE literal_eval(metadata) = "dict"       -> "ok"
           [] literal_eval(metadata) = "list"       -> "bad metadata: metadata must be a dict"
           [] literal_eval(metadata) = "ValueError" -> "bad metadata: malformed string"
           [] OTHER                                 -> "bad metadata syntax"

\* One entry of the disks parameter: a plain name, a {name, mode} pair, or an
\* entry in the GCE struct format.
LegacyStr(n) == [t |-> "str", name |-> n, keys |-> {}, mode |-> None, source |-> None]
LegacyDict(n, m) == [t |-> "dict", name |-> n, keys |-> {"name", "mode"}, mode |-> m, source |-> None]
StructDisk == [t |-> "dict", name |-> None, keys |-> {"type", "initializeParams", "autoDelete", "boot"},
               mode |-> None, source |-> None]
DiskEntries == {LegacyStr(n) : n \in DiskNames}
               \cup {LegacyDict(n, "READ_ONLY") : n \in DiskNames}
               \cup {StructDisk}
NoDisks == [set |-> FALSE, v |-> <<>>]
DisksParams == {NoDisks} \cup {[set |-> TRUE, v |-> l] : l \in SeqsUpTo(DiskEntries, MaxDisks)}

BootDiskParams ==
    {[boot_disk |-> None, boot_disk_use_existing |-> TRUE]}
    \cup {[boot_disk |-> d, boot_disk_use_existing |-> u] : d \in DiskNames, u \in BOOLEAN}

\* gce.py main(): the argument_spec with its mutually_exclusive and
\* required_one_of declarations.  Parameters the absent branch never reads
\* keep their defaults there.
GceParams ==
    {[state |-> s, name |-> n, instance_names |-> ins, metadata |-> md,
      disks |-> ds, boot_disk |-> bd.boot_disk,
      boot_disk_use_existing |-> bd.boot_disk_use_existing, count |-> c] :
        s \in GceStates, n \in Names \cup {None},
        ins \in {NoNames} \cup NameLists \cup NameStrings,
        md \in MetadataTexts, ds \in DisksParams, bd \in BootDiskParams,
        c \in {None, "2"}}

GceValid(p) ==
    /\ (p.name = None) # (p.instance_names = NoNames)      \* name xor instance_names
    /\ p.disks.set => /\ p.boot_disk = None                \* disks excludes boot_disk*
                      /\ p.boot_disk_use_existing
    /\ p.count # None => /\ p.instance_names = NoNames     \* count excludes these
                         /\ p.boot_disk = None
    /\ IsAbsentState(p.state) => /\ p.metadata = None
                                 /\ p.disks = NoDisks
                                 /\ p.boot_disk = None
                                 /\ p.count = None

\* kubernetes_*.py main(): name and state (kubernetes_namespace names its
\* object with the parameter `namespace`, held here in the field name)
KubeParams ==
    {[state |-> s, name |-> n, instance_names |-> NoNames, metadata |-> None,
      disks |-> NoDisks, boot_disk |-> None, boot_disk_use_existing |-> TRUE,
      count |-> None] : s \in KubeStates, n \in Names}

(***************************************************************************)
(* State.                                                                  *)
(***************************************************************************)
VARIABLES
    module,          \* the module this invocation runs
    params,          \* module.params (the disks list is rewritten in place)
    nodes,           \* remote: names of the GCE instances that exist
    volumes,         \* remote: names of the GCE disks that exist
    kube,            \* remote: per kubernetes module, the names that exist
    pc,              \* where the invocation is
    lc_zone,         \* execute(): the zone object ("ok"), None, or "unset"
    lc_image,        \* execute(): likewise the image,
    lc_network,      \*   the network
    lc_machine_type, \*   and the machine type
    instance_names,  \* execute(): the parsed list of names
    batch,           \* execute(): TRUE in the *_instances_by_names loops
    idx,             \* position of the batch loop in instance_names
    name,            \* the name create/delete_instance_by_name works on
    dj,              \* convert_legacy_disks_param(): the loop's position
    changed,         \* the local `changed` of the running function
    inst,            \* the local `inst`: a node's name, or None
    bchanged,        \* *_instances_by_names(): its local `changed`
    out_names,       \* created_names / deleted_instances
    out_data,        \* created_data
    outcome,         \* "running", "exit_json", "fail_json" or "exception"
    result,          \* what exit_json / fail_json was given
    calls,           \* history: the remote calls issued, in order
    fetched,         \* history: what each fetch of the target answered
    per_changed,     \* history: r['changed'] of each name of a batch
    mutated,         \* history: names of remote objects created or deleted
    faulted,         \* history: a remote call failed or answered None
    nodes0, volumes0, kube0,  \* history: the remote contents at the start
    params0,         \* history: module.params as the invocation was given them
    rpc,             \* two concurrent invocations: where each one is
    routcome,        \*   how each one ended
    rresult,         \*   what each one gave exit_json / fail_json
    rcalls,          \*   history: the remote calls each one issued
    rdisks,          \*   each one's own module.params['disks']
    rdj,             \*   each one's position in convert_legacy_disks_param()
    info_inst,       \* get_instance_info() alone: the instance object it is given
    info_out,        \*   and what it answered
    first            \* history: how the invocation before this one ended

vars == <<module, params, nodes, volumes, kube, pc, lc_zone, lc_image,
          lc_network, lc_machine_type, instance_names,
          batch, idx, name, dj, changed, inst, bchanged, out_names, out_data,
          outcome, result, calls, fetched, per_changed, mutated, faulted,
          nodes0, volumes0, kube0, params0, rpc, routcome, rresult, rcalls,
          rdisks, rdj, info_inst, info_out, first>>

remote == <<nodes, volumes, kube>>
history0 == <<nodes0, volumes0, kube0>>

NoResult == [keys |-> {}, changed |-> FALSE, msg |-> None, name |-> None,
             instance_names |-> <<>>, instance_data |-> <<>>, exc |-> None]

\* The locals of an invocation before main() has run.
Locals0 ==
    /\ lc_zone = "unset"
    /\ lc_image = "unset"
    /\ lc_network = "unset"
    /\ lc_machine_type = "unset"
    /\ instance_names = <<>>
    /\ batch = FALSE
    /\ idx = 0
    /\ name = None
    /\ dj = 0
    /\ changed = FALSE
    /\ inst = None
    /\ bchanged = FALSE
    /\ out_names = <<>>
    /\ out_data = <<>>
    /\ outcome = "running"
    /\ result = NoResult
    /\ calls = <<>>
    /\ fetched = <<>>
    /\ per_changed = <<>>
    /\ mutated = {}
    /\ faulted = FALSE

\* The two-invocation and the get_instance_info() variables, when not in use.
Procs == {1, 2}
RaceIdle ==
    /\ rpc = [p \in Procs |-> "idle"]
    /\ routcome = [p \in Procs |-> "idle"]
    /\ rresult = [p \in Procs |-> NoResult]
    /\ rcalls = [p \in Procs |-> <<>>]
    /\ rdisks = [p \in Procs |-> NoDisks]
    /\ rdj = [p \in Procs |-> 0]
InfoIdle == info_inst = None /\ info_out = None

\* No invocation has gone before this one.
NoFirst == [ended |-> FALSE, result |-> NoResult, calls |-> <<>>,
            nodes |-> {}, volumes |-> {}, kube |-> [m \in KubeModules |-> {}]]

Init ==
    /\ module \in Modules
    /\ params \in IF module = "gce" THEN {p \in GceParams : GceValid(p)} ELSE KubeParams
    /\ nodes \in SUBSET Names
    /\ volumes \in SUBSET DiskNames
    /\ kube \in [KubeModules -> SUBSET Names]
    /\ module = "gce" => kube = [m \in KubeModules |-> {}]
    /\ module # "gce" => /\ nodes = {} /\ volumes = {}
                         /\ \A m \in KubeModules \ {module} : kube[m] = {}
    /\ pc = "main"
    /\ Locals0
    /\ nodes0 = nodes /\ volumes0 = volumes /\ kube0 = kube
    /\ params0 = params
    /\ first = NoFirst
    /\ RaceIdle
    /\ InfoIdle

(***************************************************************************)
(* How an invocation ends, and the bookkeeping of remote calls.            *)
(***************************************************************************)
Goto(l) == pc' = l /\ UNCHANGED <<outcome, result>>

\* module.exit_json(**results)
exit_json(res) == pc' = "done" /\ outcome' = "exit_json" /\ result' = res

\* (variant: fail_json reports the failure and returns to its caller)
fail_json_returns(msg, kw) ==
    /\ pc' = pc
    /\ outcome' = "fail_json"
    /\ result' = [NoResult EXCEPT !.keys = {"failed", "msg"} \cup kw, !.msg = msg]

\* module.fail_json(msg=..., **kw): kw are the other keywords it is given
fail_json(msg, kw) ==
    /\ pc' = "done"
    /\ outcome' = "fail_json"
    /\ result' = [NoResult EXCEPT !.keys = {"failed", "msg"} \cup kw, !.msg = msg]

\* an exception nothing catches: the module ends in a traceback
Raise(exc) ==
    /\ pc' = "done"
    /\ outcome' = "exception"
    /\ result' = [NoResult EXCEPT !.exc = exc]

Call(op, arg) == calls' = Append(calls, <<op, arg>>)

\* What a lookup (ex_get_zone, ex_get_image, ...) may answer.
LookupAnswers == {"ok", None, "error"}

loopvars == <<batch, idx, name, bchanged, out_names, out_data, per_changed>>
lookups == <<lc_zone, lc_image, lc_network, lc_machine_type>>
consts == <<module, nodes0, volumes0, kube0, params0, rpc, routcome, rresult,
            rcalls, rdisks, rdj, info_inst, info_out, first>>

(***************************************************************************)
(* gce: deleting.                                                          *)
(***************************************************************************)
\* (variant: every name is appended, as create_instances_by_names() does)
DeletedInstancesAll(acc, r_changed, r_name) == Append(acc, r_name)

\* delete_instances_by_names(): deleted_instances after one name
DeletedInstances(acc, r_changed, r_name) ==
    IF r_changed THEN Append(acc, r_name) ELSE acc

\* (variant: `changed = r['changed']`, the last name's value wins)
BatchChangedLast(acc, r_changed) == r_changed

\* *_instances_by_names(): `if r['changed']: changed = True`
BatchChanged(acc, r_changed) == IF r_changed THEN TRUE ELSE acc

\* (variant: `changed = self.gce.destroy_node(inst)`)
ChangedAfterDestroyReturned(destroyed) == destroyed

\* delete_instance_by_name(): `changed` once destroy_node has returned
ChangedAfterDestroy(destroyed) == TRUE

DeleteResults(c, n) ==
    [NoResult EXCEPT !.keys = {"state", "changed", "zone", "name"},
                     !.changed = c, !.name = n]

BatchDeleteResults(c, names) ==
    [NoResult EXCEPT !.keys = {"state", "changed", "zone", "instance_names"},
                     !.changed = c, !.instance_names = names]

\* The return of delete_instance_by_name() with changed = c, into main()'s
\* exit_json or into the loop of delete_instances_by_names().
ReturnDeleted(c) ==
    IF lc_zone = None
    THEN Raise("AttributeError") /\ UNCHANGED loopvars     \* lc_zone.name
    ELSE IF ~batch
    THEN exit_json(DeleteResults(c, name)) /\ UNCHANGED loopvars
    ELSE /\ bchanged' = BatchChanged(bchanged, c)
         /\ out_names' = DeletedInstances(out_names, c, name)
         /\ per_changed' = Append(per_changed, c)
         /\ UNCHANGED <<batch, out_data>>
         /\ IF idx < Len(instance_names)
            THEN /\ idx' = idx + 1
                 /\ name' = instance_names[idx + 1]
                 /\ Goto("delete_instance_by_name")
            ELSE /\ UNCHANGED <<idx, name>>
                 /\ exit_json(BatchDeleteResults(bchanged', out_names'))

\* main() and execute() up to the branch on state: the zone lookup, the
\* parsing of instance_names, the dispatch of the absent branch.
GceMain ==
    /\ pc = "main" /\ module = "gce"
    /\ \E r \in LookupAnswers :
        /\ Call("ex_get_zone", "zone")
        /\ faulted' = (faulted \/ r # "ok")
        /\ IF r = "error"
           THEN /\ fail_json("Unexpected error attempting to get zone", {})
                /\ UNCHANGED <<lc_zone, instance_names, loopvars>>
           ELSE /\ lc_zone' = r
                /\ instance_names' = ParseInstanceNames(params.instance_names)
                /\ UNCHANGED <<bchanged, out_names, out_data, per_changed>>
                /\ IF IsAbsentState(params.state)
                   THEN IF params.name # None
                        THEN /\ batch' = FALSE /\ idx' = idx
                             /\ name' = params.name
                             /\ Goto("delete_instance_by_name")
                        ELSE /\ batch' = TRUE
                             /\ IF Len(instance_names') = 0
                                THEN /\ UNCHANGED <<idx, name>>
                                     /\ IF r = None
                                        THEN Raise("AttributeError")
                                        ELSE exit_json(BatchDeleteResults(FALSE, <<>>))
                                ELSE /\ idx' = 1
                                     /\ name' = instance_names'[1]
                                     /\ Goto("delete_instance_by_name")
                   ELSE IF IsPresentState(params.state)
                   THEN Goto("get_image") /\ UNCHANGED <<batch, idx, name>>
                   ELSE Raise("TypeError") /\ UNCHANGED <<batch, idx, name>>
    /\ UNCHANGED <<params, remote, lc_image, lc_network, lc_machine_type, dj,
                   changed, inst, fetched, mutated, consts>>

\* (variant: `except Exception` comes first and takes ResourceNotFoundError too)
DeleteBranchNotFoundFails(answer) ==
    IF answer = "found" THEN "destroy_node" ELSE "fail_json"

\* delete_instance_by_name(): what follows the fetch, which answered "found",
\* "ResourceNotFoundError" or "error" (any other exception)
DeleteBranch(answer) ==
    CASE answer = "ResourceNotFoundError" -> "results"     \* pass: inst = None
      [] answer = "error" -> "fail_json"
      [] OTHER -> "destroy_node"

\* delete_instance_by_name(): the fetch, and the results when nothing is found
DeleteFetch ==
    /\ pc = "delete_instance_by_name"
    /\ Call("ex_get_node", name)
    /\ \E r \in {"answer", "error"} :
        /\ faulted' = (faulted \/ r = "error")
        /\ IF DeleteBranch(IF r = "error" THEN "error"
                           ELSE IF name \in nodes THEN "found"
                           ELSE "ResourceNotFoundError") = "fail_json"
           THEN /\ inst' = None                            \* `inst = None`
                /\ changed' = FALSE                        \* `changed = False`
                /\ fail_json("Unexpected error", {"changed"})
                /\ UNCHANGED <<fetched, loopvars>>
           ELSE IF name \in nodes
           THEN /\ inst' = name
                /\ changed' = FALSE
                /\ fetched' = Append(fetched, "found")
                /\ Goto("destroy_node")
                /\ UNCHANGED loopvars
           ELSE /\ inst' = None                            \* ResourceNotFoundError
                /\ changed' = FALSE
                /\ fetched' = Append(fetched, "ResourceNotFoundError")
                /\ ReturnDeleted(FALSE)
    /\ UNCHANGED <<params, remote, lookups, instance_names, dj, mutated, consts>>

\* delete_instance_by_name(): destroy_node(inst), `changed = True`, the results
DestroyNode ==
    /\ pc = "destroy_node"
    /\ Call("destroy_node", inst)
    /\ \E r \in {"True", "False", "error"} :
        /\ faulted' = (faulted \/ r = "error")
        /\ nodes' = IF r = "True" THEN nodes \ {inst} ELSE nodes
        /\ mutated' = IF r = "True" THEN mutated \cup {<<"node", inst>>} ELSE mutated
        /\ IF r = "error"
           THEN Raise("GoogleBaseError") /\ UNCHANGED <<changed, loopvars>>
           ELSE /\ changed' = ChangedAfterDestroy(r = "True")
                /\ ReturnDeleted(changed')
    /\ UNCHANGED <<params, volumes, kube, lookups, instance_names, dj, inst,
                   fetched, consts>>

(***************************************************************************)
(* gce: creating.                                                          *)
(***************************************************************************)
\* get_image(): ex_get_image; the except clause formats its message with
\* `name`, which get_image() does not define
GetImage ==
    /\ pc = "get_image"
    /\ Call("ex_get_image", "image")
    /\ \E r \in LookupAnswers :
        /\ faulted' = (faulted \/ r # "ok")
        /\ IF r = "error"
           THEN Raise("NameError") /\ UNCHANGED lc_image
           ELSE lc_image' = r /\ Goto("get_network")
    /\ UNCHANGED <<params, remote, lc_zone, lc_network, lc_machine_type,
                   instance_names, loopvars, dj, changed, inst, fetched,
                   mutated, consts>>

\* get_network(): ex_get_network
GetNetwork ==
    /\ pc = "get_network"
    /\ Call("ex_get_network", "network")
    /\ \E r \in LookupAnswers :
        /\ faulted' = (faulted \/ r # "ok")
        /\ IF r = "error"
           THEN fail_json("Unexpected error attempting to get network", {})
                /\ UNCHANGED lc_network
           ELSE lc_network' = r /\ Goto("get_size")
    /\ UNCHANGED <<params, remote, lc_zone, lc_image, lc_machine_type,
                   instance_names, loopvars, dj, changed, inst, fetched,
                   mutated, consts>>

CreateResults(c, n, info) ==
    [NoResult EXCEPT !.keys = {"state", "changed", "zone", "instance_data", "name"},
                     !.changed = c, !.name = n, !.instance_data = <<info>>]

BatchCreateResults(c, data, names) ==
    [NoResult EXCEPT !.keys = {"state", "changed", "zone", "instance_data",
                               "instance_names"},
                     !.changed = c, !.instance_data = data, !.instance_names = names]

\* (variant: count is not looked at, a name always takes the single path)
PresentBranchNoCount(n, count) ==
    IF n # None THEN "create_instance_by_name" ELSE "create_instances_by_names"

\* execute(), state present: which of the three create functions it returns
PresentBranch(n, count) ==
    IF n # None
    THEN IF count # None THEN "create_instances_by_count"
                         ELSE "create_instance_by_name"
    ELSE "create_instances_by_names"

\* get_size(): ex_get_size; then execute() up to the call of a create_*
\* function: the check for None, cleanup_metadata, the branch on name and count.
GetSize ==
    /\ pc = "get_size"
    /\ Call("ex_get_size", "machine_type")
    /\ \E r \in LookupAnswers :
        /\ faulted' = (faulted \/ r # "ok")
        /\ IF r = "error"
           THEN /\ fail_json("Unexpected error attempting to get size", {})
                /\ UNCHANGED <<lc_machine_type, batch, idx, name>>
           ELSE /\ lc_machine_type' = r
                /\ IF None \in {lc_image, lc_network, r, lc_zone}
                   THEN /\ fail_json("Missing required create instance variable.",
                                     {"changed"})
                        /\ UNCHANGED <<batch, idx, name>>
                   ELSE IF cleanup_metadata(params.metadata) # "ok"
                   THEN /\ fail_json(cleanup_metadata(params.metadata), {"changed"})
                        /\ UNCHANGED <<batch, idx, name>>
                   ELSE IF PresentBranch(params.name, params.count)
                             = "create_instances_by_count"
                   THEN /\ fail_json("create_instances_by_count not implemented yet",
                                     {"changed", "parmas"})
                        /\ UNCHANGED <<batch, idx, name>>
                   ELSE IF PresentBranch(params.name, params.count)
                             = "create_instance_by_name"
                   THEN /\ batch' = FALSE /\ idx' = idx
                        /\ name' = params.name
                        /\ Goto("create_instance_by_name")
                   ELSE /\ batch' = TRUE
                        /\ IF Len(instance_names) = 0
                           THEN /\ UNCHANGED <<idx, name>>
                                /\ exit_json(BatchCreateResults(FALSE, <<>>, <<>>))
                           ELSE /\ idx' = 1
                                /\ name' = instance_names[1]
                                /\ Goto("create_instance_by_name")
    /\ UNCHANGED <<params, remote, lc_zone, lc_image, lc_network, instance_names,
                   bchanged, out_names, out_data, per_changed, dj, changed, inst,
                   fetched, mutated, consts>>

\* create_instance_by_name(): where it goes once the disks are converted;
\* get_boot_disk() makes a call only when boot_disk is given
AfterDisks == IF params.boot_disk # None THEN "get_boot_disk" ELSE "create_node"

\* create_instance_by_name(): its first lines
CreateInstanceByName ==
    /\ pc = "create_instance_by_name"
    /\ changed' = FALSE
    /\ dj' = 1
    /\ IF params.disks.set /\ Len(params.disks.v) > 0
       THEN Goto("convert_legacy_disks_param")
       ELSE Goto(AfterDisks)
    /\ UNCHANGED <<params, remote, lookups, instance_names, loopvars, inst,
                   calls, fetched, mutated, faulted, consts>>

\* lc_disk.extra['selfLink'] of the volume ex_get_volume(n) returns
SelfLink(n) ==
    CASE n = "d1" -> "projects/p/zones/z/disks/d1"
      [] n = "d2" -> "projects/p/zones/z/disks/d2"
      [] OTHER -> None

\* (variant: a plain name gets READ_ONLY at every position)
LegacyNameModeReadOnly(disk, i) ==
    IF disk.t = "str"
    THEN [disk_name |-> disk.name, disk_mode |-> "READ_ONLY"]
    ELSE IF disk.t = "dict" /\ disk.keys = {"name", "mode"}
    THEN [disk_name |-> disk.name, disk_mode |-> disk.mode]
    ELSE [disk_name |-> None, disk_mode |-> None]

\* convert_legacy_disks_param(): disk_name and disk_mode of entry `disk` at
\* (0-based) position i
LegacyNameMode(disk, i) ==
    IF disk.t = "str"
    THEN [disk_name |-> disk.name,
          disk_mode |-> IF i = 0 THEN "READ_WRITE" ELSE "READ_ONLY"]
    ELSE IF disk.t = "dict" /\ disk.keys = {"name", "mode"}
    THEN [disk_name |-> disk.name, disk_mode |-> disk.mode]
    ELSE [disk_name |-> None, disk_mode |-> None]

\* convert_legacy_disks_param(): new_disk
NewDisk(disk_name, disk_mode, i) ==
    [t |-> "dict", name |-> None,
     keys |-> {"source", "mode"} \cup (IF i = 0 THEN {"boot"} ELSE {}),
     mode |-> disk_mode, source |-> SelfLink(disk_name)]

\* convert_legacy_disks_param(): one turn of its loop.  An entry that has
\* been converted stays in params['disks'].  expand_disk_partial_names(),
\* which follows the loop, finds no initializeParams in converted entries.
ConvertLegacyDisk ==
    /\ pc = "convert_legacy_disks_param"
    /\ LET disk == params.disks.v[dj]
           nm == LegacyNameMode(disk, dj - 1)
       IN  IF nm.disk_name = None \/ nm.disk_mode = None
           THEN /\ fail_json("invalid value found in disks parameter", {"changed"})
                /\ UNCHANGED <<params, dj, calls, faulted>>
           ELSE /\ Call("ex_get_volume", nm.disk_name)
                /\ \E r \in {"answer", "error"} :
                    /\ faulted' = (faulted \/ r = "error")
                    /\ IF r = "error"
                       THEN Raise("GoogleBaseError") /\ UNCHANGED <<params, dj>>
                       ELSE IF nm.disk_name \notin volumes
                       THEN /\ fail_json("The disk named was not found.", {"changed"})
                            /\ UNCHANGED <<params, dj>>
                       ELSE /\ params' = [params EXCEPT !.disks.v[dj] =
                                             NewDisk(nm.disk_name, nm.disk_mode, dj - 1)]
                            /\ dj' = dj + 1
                            /\ IF dj < Len(params.disks.v)
                               THEN Goto("convert_legacy_disks_param")
                               ELSE Goto(AfterDisks)
    /\ UNCHANGED <<remote, lookups, instance_names, loopvars, changed, inst,
                   fetched, mutated, consts>>

\* create_volume(size, name, zone, snapshot, image, use_existing, disk_type)
\* of libcloud: "created", "existing" (the disk exists and use_existing is
\* set) or "ResourceExistsError"
create_volume(disk, use_existing) ==
    IF disk \notin volumes THEN "created"
    ELSE IF use_existing THEN "existing"
    ELSE "ResourceExistsError"

\* get_boot_disk(): create_volume for the boot_disk parameter
GetBootDisk ==
    /\ pc = "get_boot_disk"
    /\ Call("create_volume", params.boot_disk)
    /\ \E r \in {"answer", "error"} :
        LET a == create_volume(params.boot_disk, params.boot_disk_use_existing)
        IN  /\ faulted' = (faulted \/ r = "error")
            /\ IF r = "error" \/ a = "ResourceExistsError"
               THEN /\ fail_json("Unexpected error attempting to get boot_disk", {})
                    /\ UNCHANGED <<volumes, mutated>>
               ELSE /\ volumes' = volumes \cup {params.boot_disk}
                    /\ mutated' = IF a = "created"
                                  THEN mutated \cup {<<"volume", params.boot_disk>>}
                                  ELSE mutated
                    /\ Goto("create_node")
    /\ UNCHANGED <<params, nodes, kube, lookups, instance_names, loopvars, dj,
                   changed, inst, fetched, consts>>

(***************************************************************************)
(* gce: get_instance_info().  An instance object is libcloud's Node: name, *)
(* image, size, public_ips, private_ips and the `extra` dictionary, held   *)
(* here as the set of its keys (has) and one field per key.  A URI is the  *)
(* sequence of its segments between "/".                                   *)
(***************************************************************************)
MaxInfoDisks == 2
Unset == [set |-> FALSE, v |-> <<>>]
Given(x) == [set |-> TRUE, v |-> x]
ImageUri == <<"projects", "debian-cloud", "global", "images", "debian-7">>
NetworkUri == <<"projects", "p", "global", "networks", "default">>
DiskUri(n) == <<"projects", "p", "zones", "z", "disks", n>>
ExtraKeys == {"metadata", "networkInterfaces", "disks", "status", "tags", "zone"}

\* str.split('/')[-1]
LastSegment(uri) == uri[Len(uri)]

\* sorted(..., key=lambda disk_info: disk_info['index']): x goes after
\* every entry whose index is not greater, so equal indexes keep their order
RECURSIVE InsertByIndex(_, _)
InsertByIndex(sorted, x) ==
    IF Len(sorted) = 0 THEN <<x>>
    ELSE IF sorted[Len(sorted)].index <= x.index THEN Append(sorted, x)
    ELSE Append(InsertByIndex(SubSeq(sorted, 1, Len(sorted) - 1), x),
                sorted[Len(sorted)])

RECURSIVE SortedByIndex(_)
SortedByIndex(l) ==
    IF Len(l) = 0 THEN <<>>
    ELSE InsertByIndex(SortedByIndex(SubSeq(l, 1, Len(l) - 1)), l[Len(l)])

\* get_instance_info(): the name of one entry of sorted_disks
DiskNameOf(disk_info) ==
    IF disk_info.source.set THEN LastSegment(disk_info.source.v) ELSE "scratch"

\* get_instance_info(): the metadata dictionary, from the items in order
RECURSIVE MetadataOf(_)
MetadataOf(items) ==
    IF Len(items) = 0 THEN {}
    ELSE LET md == items[Len(items)]
         IN  {kv \in MetadataOf(SubSeq(items, 1, Len(items) - 1)) : kv[1] # md[1]}
             \cup {md}

NoInfo == [exc |-> None, image |-> None, disks |-> <<>>, machine_type |-> None,
           metadata |-> {}, name |-> None, network |-> None, private_ip |-> None,
           public_ip |-> None, status |-> None, tags |-> <<>>, zone |-> None]

\* get_instance_info(): the dictionary it returns, or the exception it raises
get_instance_info(i) ==
    IF Len(i.private_ips) = 0
    THEN [NoInfo EXCEPT !.exc = "IndexError"]            \* inst.private_ips[0]
    ELSE
    [exc |-> None,
     image |-> IF i.image.set THEN LastSegment(i.image.v) ELSE None,
     disks |-> IF "disks" \in i.has
               THEN LET sorted_disks == SortedByIndex(i.disks)
                    IN  [k \in 1..Len(sorted_disks) |-> DiskNameOf(sorted_disks[k])]
               ELSE <<>>,
     machine_type |-> i.size,
     metadata |-> IF "metadata" \in i.has /\ i.metadata_items.set
                  THEN MetadataOf(i.metadata_items.v) ELSE {},
     name |-> i.name,
     network |-> IF "networkInterfaces" \in i.has /\ Len(i.networks) > 0
                 THEN LastSegment(i.networks[1]) ELSE None,
     private_ip |-> i.private_ips[1],
     public_ip |-> IF Len(i.public_ips) = 0 THEN None ELSE i.public_ips[1],
     status |-> IF "status" \in i.has THEN i.status ELSE None,
     tags |-> IF "tags" \in i.has THEN i.tags ELSE <<>>,
     zone |-> IF "zone" \in i.has THEN i.zone ELSE None]

\* The instance object create_node / ex_get_node return for the running
\* instance n: one network interface with its address, a boot disk.
Node(n) ==
    [name |-> n, image |-> Given(ImageUri), size |-> "n1-standard-1",
     public_ips |-> <<"1.2.3.4">>, private_ips |-> <<"10.0.0.2">>,
     has |-> ExtraKeys, metadata_items |-> Unset, networks |-> <<NetworkUri>>,
     disks |-> <<[index |-> 0, source |-> Given(DiskUri(n))]>>,
     status |-> "RUNNING", tags |-> <<>>, zone |-> "z"]

\* create_instances_by_names(): created_names after one name
CreatedNames(acc, r_name) == Append(acc, r_name)

\* The return of create_instance_by_name() with changed = c and inst = i,
\* into main()'s exit_json or into the loop of create_instances_by_names().
ReturnCreated(c, i) ==
    IF ~batch
    THEN exit_json(CreateResults(c, name, get_instance_info(Node(i)))) /\ UNCHANGED loopvars
    ELSE /\ bchanged' = BatchChanged(bchanged, c)
         /\ out_data' = Append(out_data, get_instance_info(Node(i)))
         /\ out_names' = CreatedNames(out_names, name)
         /\ per_changed' = Append(per_changed, c)
         /\ UNCHANGED batch
         /\ IF idx < Len(instance_names)
            THEN /\ idx' = idx + 1
                 /\ name' = instance_names[idx + 1]
                 /\ Goto("create_instance_by_name")
            ELSE /\ UNCHANGED <<idx, name>>
                 /\ exit_json(BatchCreateResults(bchanged', out_data', out_names'))

\* (variant: the `changed = True` after create_node is missing)
ChangedAfterCreateNever(created) == FALSE

\* create_instance_by_name(): `changed` after create_node: TRUE when it
\* returned, still FALSE when it raised ResourceExistsError
ChangedAfterCreate(created) == created

\* create_instance_by_name(): create_node and what follows it
CreateNode ==
    /\ pc = "create_node"
    /\ Call("create_node", name)
    /\ \E r \in {"answer", "error"} :
        /\ faulted' = (faulted \/ r = "error")
        /\ IF r = "error"
           THEN /\ fail_json("Unexpected error attempting to create instance", {})
                /\ UNCHANGED <<nodes, mutated, changed, inst, loopvars>>
           ELSE IF name \in nodes
           THEN /\ Goto("ex_get_node")                      \* ResourceExistsError
                /\ changed' = ChangedAfterCreate(FALSE)
                /\ UNCHANGED <<nodes, mutated, inst, loopvars>>
           ELSE /\ nodes' = nodes \cup {name}
                /\ mutated' = mutated \cup {<<"node", name>>}
                /\ inst' = name
                /\ changed' = ChangedAfterCreate(TRUE)
                /\ ReturnCreated(changed', name)
    /\ UNCHANGED <<params, volumes, kube, lookups, instance_names, dj, fetched,
                   consts>>

\* create_instance_by_name(): ex_get_node after ResourceExistsError
GetExistingNode ==
    /\ pc = "ex_get_node"
    /\ Call("ex_get_node", name)
    /\ \E r \in {"answer", "error"} :
        /\ faulted' = (faulted \/ r = "error")
        /\ IF r = "error"
           THEN Raise("GoogleBaseError") /\ UNCHANGED <<inst, fetched, loopvars>>
           ELSE IF name \in nodes
           THEN /\ inst' = name
                /\ fetched' = Append(fetched, "found")
                /\ ReturnCreated(changed, name)
           ELSE /\ Raise("ResourceNotFoundError")
                /\ fetched' = Append(fetched, "ResourceNotFoundError")
                /\ UNCHANGED <<inst, loopvars>>
    /\ UNCHANGED <<params, remote, lookups, instance_names, dj, changed, mutated,
                   consts>>

(***************************************************************************)
(* The kubernetes modules.  Each main() fetches the named object, then     *)
(* branches on state and on what the fetch returned.                       *)
(***************************************************************************)
\* What each module hands exit_json.  `how` says where main() is: the object
\* was "found" (state present), "created", "deleted", or "missing" (state
\* absent).
\* kubernetes_namespace.py: changed, and the result of a create or delete
NamespaceResults(how, c, n) ==
    [NoResult EXCEPT !.keys = IF how \in {"created", "deleted"}
                              THEN {"changed", "result"} ELSE {"changed"},
                     !.changed = c]

\* kubernetes_pod.py
PodResults(how, c, n) ==
    [NoResult EXCEPT !.keys = CASE how \in {"found", "created"} ->
                                     {"changed", "name", "containers", "labels"}
                                [] how = "deleted" -> {"changed", "name", "result"}
                                [] OTHER -> {"changed", "name"},
                     !.changed = c, !.name = n]

\* kubernetes_service.py
ServiceResults(how, c, n) ==
    [NoResult EXCEPT !.keys = {"changed", "name"}, !.changed = c, !.name = n]

\* kubernetes_replication_controller.py
ReplicationControllerResults(how, c, n) ==
    [NoResult EXCEPT !.keys = CASE how = "found" ->
                                     {"changed", "name", "containers", "replicas",
                                      "selector"}
                                [] how = "created" ->
                                     {"changed", "name", "containers", "labels",
                                      "replicas", "selector"}
                                [] OTHER -> {"changed", "name"},
                     !.changed = c, !.name = n]

KubeResults(m, how, c, n) ==
    CASE m = "kubernetes_namespace" -> NamespaceResults(how, c, n)
      [] m = "kubernetes_pod" -> PodResults(how, c, n)
      [] m = "kubernetes_service" -> ServiceResults(how, c, n)
      [] OTHER -> ReplicationControllerResults(how, c, n)

\* KubernetesClient.get_*(name): the object (its name) or None
KubeGet(m, n) == IF n \in kube[m] THEN n ELSE None

kubevars == <<params, nodes, volumes, lookups, instance_names, batch, idx, dj,
              bchanged, out_names, out_data, per_changed, consts>>

\* one module's fetch and branch: `branch` is what its if/elif chooses
KubeMain(m, get, branch) ==
    /\ pc = "main" /\ module = m
    /\ name' = params.name
    /\ Call(get, params.name)
    /\ \E r \in {"answer", "error"} :
        /\ faulted' = (faulted \/ r = "error")
        /\ IF r = "error"
           THEN /\ IF m = "kubernetes_replication_controller"
                   THEN fail_json("str(e)", {})
                   ELSE Raise("Exception")
                /\ UNCHANGED <<inst, fetched>>
           ELSE /\ inst' = KubeGet(m, params.name)
                /\ fetched' = Append(fetched, IF inst' = None THEN None ELSE "found")
                /\ CASE branch = "exit_json" ->
                          exit_json(KubeResults(m, IF inst' = None THEN "missing"
                                                                   ELSE "found",
                                                FALSE, params.name))
                     [] branch = "NameError" -> fail_json("name 'pod' is not defined", {})
                     [] OTHER -> Goto(branch)
    /\ changed' = FALSE
    /\ UNCHANGED <<kube, mutated, kubevars>>

\* one module's create_* call, `changed = True` and exit_json
KubeCreate(m, create) ==
    /\ pc = create /\ module = m
    /\ Call(create, name)
    /\ \E r \in {"answer", "error"} :
        /\ faulted' = (faulted \/ r = "error")
        /\ IF r = "error"
           THEN /\ IF m = "kubernetes_replication_controller"
                   THEN fail_json("str(e)", {})
                   ELSE Raise("Exception")
                /\ UNCHANGED <<kube, mutated, changed>>
           ELSE /\ kube' = [kube EXCEPT ![m] = @ \cup {name}]
                /\ mutated' = mutated \cup {<<m, name>>}
                /\ changed' = TRUE
                /\ exit_json(KubeResults(m, "created", TRUE, name))
    /\ UNCHANGED <<name, inst, fetched, kubevars>>

\* one module's delete_* call, `changed = True` and exit_json
KubeDelete(m, delete) ==
    /\ pc = delete /\ module = m
    /\ Call(delete, name)
    /\ \E r \in {"answer", "error"} :
        /\ faulted' = (faulted \/ r = "error")
        /\ IF r = "error"
           THEN /\ IF m = "kubernetes_replication_controller"
                   THEN fail_json("str(e)", {})
                   ELSE Raise("Exception")
                /\ UNCHANGED <<kube, mutated, changed>>
           ELSE /\ kube' = [kube EXCEPT ![m] = @ \ {name}]
                /\ mutated' = mutated \cup {<<m, name>>}
                /\ changed' = TRUE
                /\ exit_json(KubeResults(m, "deleted", TRUE, name))
    /\ UNCHANGED <<name, inst, fetched, kubevars>>

\* kubernetes_namespace.py main(): the branch
NamespaceBranch(state, namespace) ==
    IF state = "present"
    THEN IF namespace # None THEN "exit_json" ELSE "create_namespace"
    ELSE IF namespace # None THEN "delete_namespace" ELSE "exit_json"

NamespaceMain ==
    KubeMain("kubernetes_namespace", "get_namespace",
             NamespaceBranch(params.state, KubeGet("kubernetes_namespace", params.name)))
NamespaceCreate == KubeCreate("kubernetes_namespace", "create_namespace")
NamespaceDelete == KubeDelete("kubernetes_namespace", "delete_namespace")

\* (variant: the test of state is lost, the branch follows the fetch alone)
PodBranchSwapped(state, pod) ==
    IF state = "present"
    THEN IF pod # None THEN "delete_pod" ELSE "create_pod"
    ELSE IF pod # None THEN "delete_pod" ELSE "create_pod"

\* kubernetes_pod.py main(): the branch
PodBranch(state, pod) ==
    IF state = "present"
    THEN IF pod # None THEN "exit_json" ELSE "create_pod"
    ELSE IF pod # None THEN "delete_pod" ELSE "exit_json"

PodMain ==
    KubeMain("kubernetes_pod", "get_pod",
             PodBranch(params.state, KubeGet("kubernetes_pod", params.name)))
PodCreate == KubeCreate("kubernetes_pod", "create_pod")
PodDelete == KubeDelete("kubernetes_pod", "delete_pod")

\* (variant: the absent branch deletes without testing the fetch)
ServiceBranchDeleteAlways(state, service) ==
    IF state = "present"
    THEN IF service # None THEN "exit_json" ELSE "create_service"
    ELSE "delete_service"

\* kubernetes_service.py main(): the branch
ServiceBranch(state, service) ==
    IF state = "present"
    THEN IF service # None THEN "exit_json" ELSE "create_service"
    ELSE IF service # None THEN "delete_service" ELSE "exit_json"

ServiceMain ==
    KubeMain("kubernetes_service", "get_service",
             ServiceBranch(params.state, KubeGet("kubernetes_service", params.name)))
ServiceCreate == KubeCreate("kubernetes_service", "create_service")
ServiceDelete == KubeDelete("kubernetes_service", "delete_service")

\* kubernetes_replication_controller.py main(): the branch.  The absent
\* branch tests `pod`, a name the function never binds: NameError, caught by
\* the enclosing `except Exception` and handed to fail_json.
ReplicationControllerBranch(state, replication_controller) ==
    IF state = "present"
    THEN IF replication_controller # None
         THEN "exit_json" ELSE "create_replication_controller"
    ELSE "NameError"

ReplicationControllerMain ==
    KubeMain("kubernetes_replication_controller", "get_replication_controller",
             ReplicationControllerBranch(params.state,
                 KubeGet("kubernetes_replication_controller", params.name)))
ReplicationControllerCreate ==
    KubeCreate("kubernetes_replication_controller", "create_replication_controller")

(***************************************************************************)
(* The specification.                                                      *)
(***************************************************************************)
Next ==
    \/ GceMain
    \/ DeleteFetch
    \/ DestroyNode
    \/ GetImage
    \/ GetNetwork
    \/ GetSize
    \/ CreateInstanceByName
    \/ ConvertLegacyDisk
    \/ GetBootDisk
    \/ CreateNode
    \/ GetExistingNode
    \/ NamespaceMain
    \/ NamespaceCreate
    \/ NamespaceDelete
    \/ PodMain
    \/ PodCreate
    \/ PodDelete
    \/ ServiceMain
    \/ ServiceCreate
    \/ ServiceDelete
    \/ ReplicationControllerMain
    \/ ReplicationControllerCreate

Spec == Init /\ [][Next]_vars

(***************************************************************************)
(* gce: two invocations of create_instance_by_name() on the same name, at  *)
(* the same time.  Both have passed execute()'s lookups and are at        *)
(* cleanup_metadata(); each has its own module.params; each remote call is *)
(* atomic, and the calls of the two interleave in any order.               *)
(***************************************************************************)
RaceParams ==
    {p \in GceParams : /\ GceValid(p) /\ IsPresentState(p.state)
                       /\ PresentBranch(p.name, p.count) = "create_instance_by_name"}

InitRace ==
    /\ module = "gce"
    /\ params \in RaceParams
    /\ nodes \in SUBSET (Names \ {params.name})
    /\ volumes \in SUBSET DiskNames
    /\ kube = [m \in KubeModules |-> {}]
    /\ pc = "two invocations"
    /\ Locals0
    /\ nodes0 = nodes /\ volumes0 = volumes /\ kube0 = kube
    /\ params0 = params
    /\ first = NoFirst
    /\ rpc = [p \in Procs |-> "cleanup_metadata"]
    /\ routcome = [p \in Procs |-> "running"]
    /\ rresult = [p \in Procs |-> NoResult]
    /\ rcalls = [p \in Procs |-> <<>>]
    /\ rdisks = [p \in Procs |-> params.disks]
    /\ rdj = [p \in Procs |-> 0]
    /\ InfoIdle

RaceGoto(p, l) == rpc' = [rpc EXCEPT ![p] = l] /\ UNCHANGED <<routcome, rresult>>
RaceEnd(p, how, res) ==
    /\ rpc' = [rpc EXCEPT ![p] = "done"]
    /\ routcome' = [routcome EXCEPT ![p] = how]
    /\ rresult' = [rresult EXCEPT ![p] = res]
RaceCall(p, op, arg) == rcalls' = [rcalls EXCEPT ![p] = Append(@, <<op, arg>>)]
FailResult(msg, kw) ==
    [NoResult EXCEPT !.keys = {"failed", "msg"} \cup kw, !.msg = msg]

racemain == <<module, params, kube, pc, lookups, instance_names, loopvars, dj,
              changed, inst, outcome, result, calls, fetched, mutated,
              history0, params0, info_inst, info_out, first>>

racedisks == <<rdisks, rdj>>

\* execute() of invocation p from cleanup_metadata() on, into
\* create_instance_by_name()
RaceCleanupMetadata(p) ==
    /\ rpc[p] = "cleanup_metadata"
    /\ IF cleanup_metadata(params.metadata) # "ok"
       THEN /\ RaceEnd(p, "fail_json",
                 FailResult(cleanup_metadata(params.metadata), {"changed"}))
            /\ UNCHANGED rdj
       ELSE /\ rdj' = [rdj EXCEPT ![p] = 1]
            /\ IF rdisks[p].set /\ Len(rdisks[p].v) > 0
               THEN RaceGoto(p, "convert_legacy_disks_param")
               ELSE RaceGoto(p, AfterDisks)
    /\ UNCHANGED <<nodes, volumes, rcalls, rdisks, faulted, racemain>>

\* convert_legacy_disks_param() of invocation p: one turn of its loop
RaceConvertLegacyDisk(p) ==
    /\ rpc[p] = "convert_legacy_disks_param"
    /\ LET disk == rdisks[p].v[rdj[p]]
           nm == LegacyNameMode(disk, rdj[p] - 1)
       IN  IF nm.disk_name = None \/ nm.disk_mode = None
           THEN /\ RaceEnd(p, "fail_json",
                     FailResult("invalid value found in disks parameter", {"changed"}))
                /\ UNCHANGED <<rdisks, rdj, rcalls, faulted>>
           ELSE /\ RaceCall(p, "ex_get_volume", nm.disk_name)
                /\ \E r \in {"answer", "error"} :
                    /\ faulted' = (faulted \/ r = "error")
                    /\ IF r = "error"
                       THEN /\ RaceEnd(p, "exception",
                                 [NoResult EXCEPT !.exc = "GoogleBaseError"])
                            /\ UNCHANGED <<rdisks, rdj>>
                       ELSE IF nm.disk_name \notin volumes
                       THEN /\ RaceEnd(p, "fail_json",
                                 FailResult("The disk named was not found.", {"changed"}))
                            /\ UNCHANGED <<rdisks, rdj>>
                       ELSE /\ rdisks' = [rdisks EXCEPT ![p].v[rdj[p]] =
                                             NewDisk(nm.disk_name, nm.disk_mode, rdj[p] - 1)]
                            /\ rdj' = [rdj EXCEPT ![p] = @ + 1]
                            /\ IF rdj[p] < Len(rdisks[p].v)
                               THEN RaceGoto(p, "convert_legacy_disks_param")
                               ELSE RaceGoto(p, AfterDisks)
    /\ UNCHANGED <<nodes, volumes, racemain>>

\* get_boot_disk() of invocation p
RaceGetBootDisk(p) ==
    /\ rpc[p] = "get_boot_disk"
    /\ RaceCall(p, "create_volume", params.boot_disk)
    /\ \E r \in {"answer", "error"} :
        LET a == create_volume(params.boot_disk, params.boot_disk_use_existing)
        IN  /\ faulted' = (faulted \/ r = "error")
            /\ IF r = "error" \/ a = "ResourceExistsError"
               THEN /\ RaceEnd(p, "fail_json",
                         FailResult("Unexpected error attempting to get boot_disk", {}))
                    /\ UNCHANGED volumes
               ELSE /\ volumes' = volumes \cup {params.boot_disk}
                    /\ RaceGoto(p, "create_node")
    /\ UNCHANGED <<nodes, racedisks, racemain>>

\* create_node of invocation p, and the results when it created the instance
RaceCreateNode(p) ==
    /\ rpc[p] = "create_node"
    /\ RaceCall(p, "create_node", params.name)
    /\ \E r \in {"answer", "error"} :
        /\ faulted' = (faulted \/ r = "error")
        /\ IF r = "error"
           THEN /\ RaceEnd(p, "fail_json",
                     FailResult("Unexpected error attempting to create instance", {}))
                /\ UNCHANGED nodes
           ELSE IF params.name \in nodes
           THEN RaceGoto(p, "ex_get_node") /\ UNCHANGED nodes   \* ResourceExistsError
           ELSE /\ nodes' = nodes \cup {params.name}
                /\ RaceEnd(p, "exit_json",
                     CreateResults(ChangedAfterCreate(TRUE), params.name,
                                   get_instance_info(Node(params.name))))
    /\ UNCHANGED <<volumes, racedisks, racemain>>

\* ex_get_node of invocation p after ResourceExistsError, and the results
RaceGetExistingNode(p) ==
    /\ rpc[p] = "ex_get_node"
    /\ RaceCall(p, "ex_get_node", params.name)
    /\ \E r \in {"answer", "error"} :
        /\ faulted' = (faulted \/ r = "error")
        /\ IF r = "error"
           THEN RaceEnd(p, "exception", [NoResult EXCEPT !.exc = "GoogleBaseError"])
           ELSE IF params.name \in nodes
           THEN RaceEnd(p, "exit_json",
                     CreateResults(ChangedAfterCreate(FALSE), params.name,
                                   get_instance_info(Node(params.name))))
           ELSE RaceEnd(p, "exception",
                        [NoResult EXCEPT !.exc = "ResourceNotFoundError"])
    /\ UNCHANGED <<nodes, volumes, racedisks, racemain>>

NextRace ==
    \/ \E p \in Procs : RaceCleanupMetadata(p)
    \/ \E p \in Procs : RaceConvertLegacyDisk(p)
    \/ \E p \in Procs : RaceGetBootDisk(p)
    \/ \E p \in Procs : RaceCreateNode(p)
    \/ \E p \in Procs : RaceGetExistingNode(p)

SpecRace == InitRace /\ [][NextRace]_vars

(***************************************************************************)
(* gce: a single-name create given a legacy disks list, with longer lists  *)
(* and more disks and modes than Init draws.                               *)
(***************************************************************************)
MaxLegacyDisks == 3
LegacyDiskNames == {"d1", "d2"}
DiskModes == {"READ_ONLY", "READ_WRITE"}
LegacyDiskEntries ==
    {LegacyStr(n) : n \in LegacyDiskNames}
    \cup {LegacyDict(n, m) : n \in LegacyDiskNames, m \in DiskModes}

InitDisks ==
    /\ module = "gce"
    /\ params \in {[state |-> "present", name |-> "foo", instance_names |-> NoNames,
                     metadata |-> None, disks |-> [set |-> TRUE, v |-> l],
                     boot_disk |-> None, boot_disk_use_existing |-> TRUE,
                     count |-> None] :
                        l \in SeqsUpTo(LegacyDiskEntries, MaxLegacyDisks)}
    /\ GceValid(params)
    /\ nodes \in SUBSET {params.name}
    /\ volumes \in SUBSET LegacyDiskNames
    /\ kube = [m \in KubeModules |-> {}]
    /\ pc = "main"
    /\ Locals0
    /\ nodes0 = nodes /\ volumes0 = volumes /\ kube0 = kube
    /\ params0 = params
    /\ first = NoFirst
    /\ RaceIdle
    /\ InfoIdle

NextDisks ==
    \/ GceMain
    \/ GetImage
    \/ GetNetwork
    \/ GetSize
    \/ CreateInstanceByName
    \/ ConvertLegacyDisk
    \/ CreateNode
    \/ GetExistingNode

SpecDisks == InitDisks /\ [][NextDisks]_vars

(***************************************************************************)
(* gce: get_instance_info() alone, on any instance object: each optional   *)
(* attribute present or absent.  The field of a key that `extra` does not *)
(* have is not read: it is held at one value (no disks, no tags, the items *)
(* and network of Node("foo")).                                            *)
(***************************************************************************)
InfoDiskEntries ==
    {[index |-> x, source |-> src] :
        x \in 0..1, src \in {Unset, Given(DiskUri("d1")), Given(DiskUri("d2"))}}

InstanceObjects ==
    {[Node("foo") EXCEPT !.image = img, !.public_ips = pub, !.private_ips = priv,
                         !.has = has, !.metadata_items = items, !.networks = nets,
                         !.disks = ds, !.tags = tags] :
        img \in {Unset, Given(ImageUri)},
        pub \in {<<>>, <<"1.2.3.4">>},
        priv \in {<<>>, <<"10.0.0.2">>},
        has \in SUBSET ExtraKeys,
        items \in {Unset, Given(<<>>), Given(<< <<"db", "postgres">> >>)},
        nets \in {<<>>, <<NetworkUri>>},
        ds \in SeqsUpTo(InfoDiskEntries, MaxInfoDisks),
        tags \in {<<>>, <<"web">>}}

\* the fields of keys `extra` does not have are not drawn
InfoInputs ==
    {i \in InstanceObjects :
        /\ "metadata" \notin i.has => i.metadata_items = Node("foo").metadata_items
        /\ "networkInterfaces" \notin i.has => i.networks = Node("foo").networks
        /\ "disks" \notin i.has => i.disks = <<>>
        /\ "tags" \notin i.has => i.tags = Node("foo").tags}

InitInfo ==
    /\ module = "gce"
    /\ params \in RaceParams /\ params.name = "foo" /\ params.boot_disk = None
    /\ params.state = "present" /\ params.metadata = None /\ ~params.disks.set
    /\ nodes = {"foo"} /\ volumes = {}
    /\ kube = [m \in KubeModules |-> {}]
    /\ pc = "get_instance_info"
    /\ Locals0
    /\ nodes0 = nodes /\ volumes0 = volumes /\ kube0 = kube
    /\ params0 = params
    /\ first = NoFirst
    /\ RaceIdle
    /\ info_inst \in InfoInputs
    /\ info_out = NoInfo

\* self.get_instance_info(inst)
GetInstanceInfo ==
    /\ pc = "get_instance_info"
    /\ info_out' = get_instance_info(info_inst)
    /\ pc' = "get_instance_info returned"
    /\ UNCHANGED <<module, params, remote, lookups, instance_names, loopvars, dj,
                   changed, inst, outcome, result, calls, fetched, mutated,
                   faulted, history0, params0, rpc, routcome, rresult, rcalls,
                   rdisks, rdj, info_inst, first>>

NextInfo == GetInstanceInfo

SpecInfo == InitInfo /\ [][NextInfo]_vars

(***************************************************************************)
(* One module run twice on one name: when an invocation of gce (single     *)
(* name), kubernetes_namespace, kubernetes_pod or kubernetes_service has   *)
(* ended in exit_json, the same module is invoked again with the           *)
(* parameters as first given, on the remote state the first one left.      *)
(***************************************************************************)
InitTwice ==
    /\ Init
    /\ module \in {"gce", "kubernetes_namespace", "kubernetes_pod", "kubernetes_service"}
    /\ module = "gce" => params.name # None /\ params.count = None

\* main() is entered a second time
Rerun ==
    /\ pc = "done" /\ outcome = "exit_json" /\ ~first.ended
    /\ first' = [ended |-> TRUE, result |-> result, calls |-> calls,
                 nodes |-> nodes, volumes |-> volumes, kube |-> kube]
    /\ params' = params0
    /\ pc' = "main"
    /\ lc_zone' = "unset" /\ lc_image' = "unset"
    /\ lc_network' = "unset" /\ lc_machine_type' = "unset"
    /\ instance_names' = <<>>
    /\ batch' = FALSE /\ idx' = 0 /\ name' = None /\ dj' = 0
    /\ changed' = FALSE /\ inst' = None /\ bchanged' = FALSE
    /\ out_names' = <<>> /\ out_data' = <<>>
    /\ outcome' = "running" /\ result' = NoResult
    /\ calls' = <<>> /\ fetched' = <<>> /\ per_changed' = <<>> /\ mutated' = {}
    /\ UNCHANGED <<module, remote, faulted, history0, params0, rpc, routcome,
                   rresult, rcalls, rdisks, rdj, info_inst, info_out>>

NextTwice ==
    \/ GceMain
    \/ DeleteFetch
    \/ DestroyNode
    \/ GetImage
    \/ GetNetwork
    \/ GetSize
    \/ CreateInstanceByName
    \/ ConvertLegacyDisk
    \/ GetBootDisk
    \/ CreateNode
    \/ GetExistingNode
    \/ NamespaceMain
    \/ NamespaceCreate
    \/ NamespaceDelete
    \/ PodMain
    \/ PodCreate
    \/ PodDelete
    \/ ServiceMain
    \/ ServiceCreate
    \/ ServiceDelete
    \/ Rerun

SpecTwice == InitTwice /\ [][NextTwice]_vars

(***************************************************************************)
(* Vocabulary of the properties.                                           *)
(***************************************************************************)
Done == pc = "done"

CreateOps == {"create_node", "create_volume", "create_namespace", "create_pod",
              "create_replication_controller", "create_service"}
DeleteOps == {"destroy_node", "delete_namespace", "delete_pod",
              "delete_replication_controller", "delete_service"}

\* how many times `op` was called on `n`
CallCount(op, n) == Cardinality({i \in 1..Len(calls) : calls[i] = <<op, n>>})
\* the operations called so far
CalledOps == {calls[i][1] : i \in 1..Len(calls)}

CreateOpOf(m) ==
    CASE m = "gce" -> "create_node"
      [] m = "kubernetes_namespace" -> "create_namespace"
      [] m = "kubernetes_pod" -> "create_pod"
      [] m = "kubernetes_replication_controller" -> "create_replication_controller"
      [] m = "kubernetes_service" -> "create_service"
DeleteOpOf(m) ==
    CASE m = "gce" -> "destroy_node"
      [] m = "kubernetes_namespace" -> "delete_namespace"
      [] m = "kubernetes_pod" -> "delete_pod"
      [] m = "kubernetes_replication_controller" -> "delete_replication_controller"
      [] m = "kubernetes_service" -> "delete_service"
KindOf(m) == IF m = "gce" THEN "node" ELSE m

\* the names of the module's kind that existed when the invocation started
Existing0 == IF module = "gce" THEN nodes0 ELSE kube0[module]

WantsPresent == IsPresentState(params.state)
WantsAbsent == IsAbsentState(params.state)

\* a gce invocation that takes the single-name path with parameters that
\* pass validation: name given, no count, metadata a dict or None
SingleName == params.name # None /\ params.count = None
GceSingleCreate ==
    /\ module = "gce" /\ WantsPresent /\ SingleName
    /\ cleanup_metadata(params.metadata) = "ok"
    /\ ~params.disks.set
\* the modules of the claims about deletion
DeletingModules == {"gce", "kubernetes_namespace", "kubernetes_pod", "kubernetes_service"}
SingleDelete ==
    /\ module \in DeletingModules /\ WantsAbsent
    /\ module = "gce" => params.name # None

Succeeded(c) == outcome = "exit_json" /\ result.changed = c

\* the instance_names list a parameter stands for: the list itself, or the
\* list whose names, joined by "," or ", ", give the string
StandsFor(p, l) ==
    \/ p.t = "list" /\ p.v = l
    \/ p.t = "str" /\ \E sep \in {<<",">>, <<",", " ">>} : Join(l, sep) = p.v

RECURSIVE Found(_, _)
\* the names whose fetch answered with an instance, in order
Found(names, answers) ==
    IF Len(names) = 0 \/ Len(answers) = 0 THEN <<>>
    ELSE (IF Head(answers) = "found" THEN <<Head(names)>> ELSE <<>>)
         \o Found(Tail(names), Tail(answers))

(***************************************************************************)
(* The claims.                                                             *)
(***************************************************************************)

\* C1: present (or active) against a name that already exists ends
\* successfully with changed=false, in each of the five modules (for gce:
\* the single-name create), when no remote call fails.
C1_PresentExistingUnchanged ==
    ( /\ Done /\ ~faulted /\ WantsPresent
      /\ params.name \in Existing0
      /\ module = "gce" => GceSingleCreate )
    => Succeeded(FALSE)

\* C2: present against a name that does not exist, the remote create
\* succeeding: the kind's create call is issued exactly once and the
\* invocation ends successfully with changed=true; and no such invocation
\* ends successfully without that call.
C2_PresentMissingCreatesOnce ==
    ( /\ Done /\ WantsPresent
      /\ params.name # None /\ params.name \notin Existing0
      /\ \/ <<KindOf(module), params.name>> \in mutated
         \/ outcome = "exit_json" )
    => /\ CallCount(CreateOpOf(module), params.name) = 1
       /\ Succeeded(TRUE)

C2_Witness ==
    /\ Done /\ module = "gce" /\ WantsPresent
    /\ params.name = "foo" /\ "foo" \notin nodes0 /\ "foo" \in nodes
    /\ params.boot_disk # None
    /\ CallCount("create_node", "foo") = 1
    /\ Succeeded(TRUE)

\* C3: absent (or deleted) when the fetch returned an existing resource
\* (gce single name, namespace, pod, service): the kind's delete call is
\* issued exactly once, and the invocation, unless the delete call raises,
\* ends successfully with changed=true.
C3_AbsentExistingDeletesOnce ==
    ( /\ Done /\ SingleDelete /\ fetched = <<"found">> )
    => /\ CallCount(DeleteOpOf(module), params.name) = 1
       /\ ~faulted => Succeeded(TRUE)

C3_Witness ==
    /\ Done /\ SingleDelete /\ module = "gce" /\ fetched = <<"found">>
    /\ params.name \in nodes                  \* destroy_node returned False
    /\ ~faulted /\ Succeeded(TRUE)

\* C4: absent (or deleted) when the fetch reported that the resource does
\* not exist (gce single name, namespace, pod, service): no delete call is
\* issued and the invocation ends successfully with changed=false.
C4_AbsentMissingNoDelete ==
    ( /\ Done /\ SingleDelete
      /\ Len(fetched) = 1 /\ fetched[1] # "found" )
    => /\ CalledOps \cap DeleteOps = {}
       /\ ~faulted => Succeeded(FALSE)

C4_Witness ==
    /\ Done /\ SingleDelete /\ module = "kubernetes_service"
    /\ fetched = <<None>> /\ ~faulted /\ Succeeded(FALSE)

\* C5: kubernetes_replication_controller with state absent deletes the
\* controller exactly once and ends with changed=true when the fetch
\* returned one, ends with changed=false without a delete call when it
\* returned None, and in neither case ends in fail_json.
C5_ReplicationControllerAbsent ==
    ( /\ Done /\ ~faulted
      /\ module = "kubernetes_replication_controller" /\ WantsAbsent )
    => /\ outcome # "fail_json"
       /\ fetched = <<"found">> =>
            /\ CallCount("delete_replication_controller", params.name) = 1
            /\ Succeeded(TRUE)
       /\ fetched = <<None>> =>
            /\ "delete_replication_controller" \notin CalledOps
            /\ Succeeded(FALSE)

\* C6: present against a name that already exists issues no create call
\* and no other mutating call (for gce neither create_node nor
\* create_volume), in every module.
C6_PresentExistingIssuesNoCreate ==
    ( /\ WantsPresent /\ params.name # None /\ params.name \in Existing0 )
    => CalledOps \cap (CreateOps \cup DeleteOps) = {}

\* C7: a gce invocation that returns a result reports changed=true exactly
\* when a mutating remote call (create_node, create_volume, destroy_node)
\* was executed and succeeded.
C7_ChangedIffMutated ==
    ( module = "gce" /\ outcome = "exit_json" )
    => (result.changed <=> mutated # {})

\* C8: no invocation issues both kinds of call: with state absent or deleted
\* no create call is ever issued, with state present or active no delete
\* call, in single-name and batch runs of every module.
C8_CreateXorDelete ==
    /\ WantsAbsent => CalledOps \cap CreateOps = {}
    /\ WantsPresent => CalledOps \cap DeleteOps = {}

C8_Witness ==
    /\ Done /\ module = "gce" /\ WantsAbsent /\ batch
    /\ CallCount("destroy_node", "foo") = 1 /\ CallCount("destroy_node", "bar") = 1

\* C9: a successful gce batch create over [n1..nk] returns instance_names
\* equal to [n1..nk] in input order, instance_data of length k whose i-th
\* record is that of the i-th name, and changed equal to the OR of the
\* per-name changed values.
C9_BatchCreateResult ==
    ( /\ module = "gce" /\ WantsPresent /\ params.name = None
      /\ outcome = "exit_json" )
    => \A l \in SeqsUpTo(Names, MaxNames) :
         StandsFor(params.instance_names, l) =>
           /\ result.instance_names = l
           /\ Len(result.instance_data) = Len(l)
           /\ \A i \in 1..Len(l) : result.instance_data[i].name = l[i]
           /\ Len(per_changed) = Len(l)
           /\ result.changed = (\E i \in 1..Len(l) : per_changed[i])

C9_Witness ==
    /\ module = "gce" /\ WantsPresent /\ outcome = "exit_json"
    /\ params.instance_names = [t |-> "str", v |-> <<"foo", ",", " ", "foo">>]
    /\ result.instance_names = <<"foo", "foo">>
    /\ per_changed = <<TRUE, FALSE>>
    /\ result.changed

\* C10 as claimed: a successful gce batch delete over [n1..nk] returns
\* instance_names equal to [n1..nk], whichever of the names existed.
C10_BatchDeleteReturnsAllNames ==
    ( /\ module = "gce" /\ WantsAbsent /\ params.name = None
      /\ outcome = "exit_json" )
    => \A l \in SeqsUpTo(Names, MaxNames) :
         StandsFor(params.instance_names, l) => result.instance_names = l

\* C10, what the code returns instead: a successful gce batch delete over
\* [n1..nk] returns in instance_names, in input order, the names whose fetch
\* returned an instance (those handed to destroy_node), and only those; the
\* names that did not exist are dropped and the positions no longer match.
C10_BatchDeleteReturnsDeletedNames ==
    ( /\ module = "gce" /\ WantsAbsent /\ params.name = None
      /\ outcome = "exit_json" )
    => \A l \in SeqsUpTo(Names, MaxNames) :
         StandsFor(params.instance_names, l) =>
           /\ Len(fetched) = Len(l)
           /\ result.instance_names = Found(l, fetched)
           /\ \A n \in Names :
                CallCount("destroy_node", n)
                  = Cardinality({i \in 1..Len(l) : l[i] = n /\ fetched[i] = "found"})

\* a batch delete whose first name did not exist: one name comes back for two
C10_Witness ==
    /\ module = "gce" /\ WantsAbsent /\ outcome = "exit_json"
    /\ params.instance_names = [t |-> "list", v |-> <<"foo", "bar">>]
    /\ fetched = <<"ResourceNotFoundError", "found">>
    /\ result.instance_names = <<"bar">>

\* the names a gce batch has issued `op` on, in the order of the calls
IssuedOn(op) ==
    LET sel == SelectSeq(calls, LAMBDA c : c[1] = op)
    IN  [j \in 1..Len(sel) |-> sel[j][2]]
\* the instances this invocation created or deleted
MutatedNodes == {n \in Names : <<"node", n>> \in mutated}
Failed == outcome \in {"fail_json", "exception"}

\* C11: when a gce batch create or batch delete fails at the name at
\* position idx, the per-name call (create_node, or the fetch of a delete)
\* has been issued on the names up to idx only, in input order, and on none
\* after; the invocation has ended in failure; and what the earlier names
\* created stays created, what they deleted stays deleted: a failed create
\* batch has issued no destroy_node, a failed delete batch no create_node.
C11_BatchStopsAtFirstFailure ==
    (module = "gce" /\ batch /\ Failed) =>
      LET issued == IssuedOn(IF WantsAbsent THEN "ex_get_node" ELSE "create_node")
      IN  /\ Len(issued) \in {idx - 1, idx}
          /\ issued = SubSeq(instance_names, 1, Len(issued))
          /\ WantsAbsent =>
                /\ Len(issued) = idx
                /\ CalledOps \cap CreateOps = {}
                /\ nodes = nodes0 \ MutatedNodes
          /\ WantsPresent =>
                /\ CalledOps \cap DeleteOps = {}
                /\ nodes = nodes0 \cup MutatedNodes
                /\ volumes0 \subseteq volumes

\* a create batch that failed at its second name after creating the first
C11_Witness ==
    /\ module = "gce" /\ batch /\ WantsPresent /\ Failed /\ idx = 2
    /\ IssuedOn("create_node") = SubSeq(instance_names, 1, 2)
    /\ instance_names[1] \in nodes \ nodes0

\* C12 as claimed: a gce present run whose metadata does not parse as a
\* dictionary literal ends in fail_json with changed=false, and has issued no
\* remote call of any kind by then.
C12_BadMetadataNoRemoteCall ==
    ( /\ module = "gce" /\ WantsPresent /\ Done /\ ~faulted
      /\ cleanup_metadata(params.metadata) # "ok" )
    => /\ outcome = "fail_json"
       /\ "changed" \in result.keys /\ ~result.changed
       /\ calls = <<>>

\* the disks parameter as given was a non-empty list of entries in E
DisksGivenIn(E) ==
    /\ params0.disks.set /\ Len(params0.disks.v) > 0
    /\ \A i \in 1..Len(params0.disks.v) : params0.disks.v[i] \in E

\* C13 as claimed: a gce single-name present run whose disks entries are all
\* in the current GCE struct format passes convert_legacy_disks_param with
\* the list unchanged and goes on to issue create_node.
C13_StructDisksAccepted ==
    ( /\ module = "gce" /\ WantsPresent /\ SingleName /\ Done /\ ~faulted
      /\ cleanup_metadata(params.metadata) = "ok"
      /\ DisksGivenIn({StructDisk}) )
    => /\ params.disks = params0.disks
       /\ CallCount("create_node", params.name) = 1
       /\ outcome # "fail_json"

\* C14: a gce present run given name and count issues no create_node, no
\* create_volume and no destroy_node and never ends in exit_json; when its
\* lookups succeed and its metadata is acceptable it ends in fail_json with
\* the message that create-by-count is not implemented and changed=false.
C14_CountNotImplemented ==
    ( /\ module = "gce" /\ WantsPresent
      /\ params.name # None /\ params.count # None )
    => /\ CalledOps \cap {"create_node", "create_volume", "destroy_node"} = {}
       /\ outcome # "exit_json"
       /\ (Done /\ ~faulted /\ cleanup_metadata(params.metadata) = "ok") =>
            /\ outcome = "fail_json"
            /\ result.msg = "create_instances_by_count not implemented yet"
            /\ "changed" \in result.keys /\ ~result.changed

C14_Witness ==
    /\ module = "gce" /\ WantsPresent /\ Done
    /\ params.name # None /\ params.count # None
    /\ outcome = "fail_json"
    /\ result.msg = "create_instances_by_count not implemented yet"
    /\ Len(calls) = 4

\* C15 as claimed: every gce run that does not end successfully ends in one
\* fail_json that carries a message and changed=false: never in an exception
\* nothing catches, never in a fail_json without the changed keyword.
C15_FailuresAreFailJsonUnchanged ==
    (module = "gce" /\ Done /\ outcome # "exit_json") =>
      /\ outcome = "fail_json"
      /\ "msg" \in result.keys /\ result.msg # None
      /\ "changed" \in result.keys /\ ~result.changed

RaceDone == \A p \in Procs : rpc[p] = "done"
\* the parameters are ones a create goes through with: metadata a dict or
\* None, disks (if given) legacy entries that name existing disks
RaceAccepted ==
    /\ cleanup_metadata(params.metadata) = "ok"
    /\ params.disks.set =>
         \A i \in 1..Len(params.disks.v) :
            /\ params.disks.v[i] \in DiskEntries \ {StructDisk}
            /\ params.disks.v[i].name \in volumes0

\* C16 as claimed: when two gce present invocations create the same missing
\* name at the same time and no remote call fails for another reason, both
\* end in exit_json, exactly one of them with changed=true; the other was
\* refused by create_node, fetched the instance and reports it with
\* changed=false.
C16_ConcurrentCreates ==
    (RaceDone /\ ~faulted /\ RaceAccepted) =>
      /\ \A p \in Procs : routcome[p] = "exit_json"
      /\ \E p \in Procs :
            /\ rresult[p].changed
            /\ \A q \in Procs \ {p} :
                 /\ ~rresult[q].changed
                 /\ rresult[q].instance_data = rresult[p].instance_data
                 /\ \E i \in 1..Len(rcalls[q]) - 1 :
                      /\ rcalls[q][i] = <<"create_node", params.name>>
                      /\ rcalls[q][i + 1] = <<"ex_get_node", params.name>>

\* C16, where it holds: the same, for runs that are not given boot_disk with
\* boot_disk_use_existing=no.
C16_ConcurrentCreatesWithoutNewBootDisk ==
    (params.boot_disk = None \/ params.boot_disk_use_existing) => C16_ConcurrentCreates

\* the entries convert_legacy_disks_param() takes for legacy ones
LegacyEntries == {e \in DiskEntries : LegacyNameMode(e, 0).disk_name # None}

\* C17 as claimed: in a gce batch create given a legacy disks list whose
\* disks all exist, with no remote failure, every name is processed with the
\* disks parameter as given: the conversion succeeds for every name, so the
\* batch issues create_node on each name and ends in exit_json.
C17_BatchDisksConvertedForEveryName ==
    ( /\ module = "gce" /\ WantsPresent /\ batch /\ Done /\ ~faulted
      /\ DisksGivenIn(LegacyEntries)
      /\ \A i \in 1..Len(params0.disks.v) : params0.disks.v[i].name \in volumes0 )
    => /\ outcome = "exit_json"
       /\ IssuedOn("create_node") = instance_names

\* convert_legacy_disks_param() has run through the whole list as given
ConversionDone == module = "gce" /\ dj = Len(params0.disks.v) + 1

\* C18 as claimed: once convert_legacy_disks_param has run through a legacy
\* list, the list has the same length and order; entry 0 has boot=true and
\* mode READ_WRITE; every other plain-name entry has mode READ_ONLY and no
\* boot flag; every {name, mode} entry at a later position keeps its mode;
\* each source is the selfLink of the volume the entry named.
C18_LegacyDisksEntryZeroReadWrite ==
    (ConversionDone /\ DisksGivenIn(LegacyDiskEntries)) =>
      /\ Len(params.disks.v) = Len(params0.disks.v)
      /\ \A i \in 1..Len(params0.disks.v) :
           LET old == params0.disks.v[i]
               new == params.disks.v[i]
           IN  /\ new.source = SelfLink(old.name)
               /\ new.keys = {"source", "mode"} \cup (IF i = 1 THEN {"boot"} ELSE {})
               /\ new.mode = IF i = 1 THEN "READ_WRITE"
                              ELSE IF old.t = "dict" THEN old.mode
                              ELSE "READ_ONLY"

\* C18 as amended: the same, except that a {name, mode} entry keeps its
\* given mode at every position, position 0 included; only a plain name at
\* position 0 gets READ_WRITE.
C18_LegacyDisksConverted ==
    (ConversionDone /\ DisksGivenIn(LegacyDiskEntries)) =>
      /\ Len(params.disks.v) = Len(params0.disks.v)
      /\ \A i \in 1..Len(params0.disks.v) :
           LET old == params0.disks.v[i]
               new == params.disks.v[i]
           IN  /\ new.source = SelfLink(old.name)
               /\ new.keys = {"source", "mode"} \cup (IF i = 1 THEN {"boot"} ELSE {})
               /\ new.mode = IF old.t = "dict" THEN old.mode
                              ELSE IF i = 1 THEN "READ_WRITE"
                              ELSE "READ_ONLY"

C18_Witness ==
    /\ ConversionDone
    /\ params0.disks.v = <<LegacyStr("d2"), LegacyStr("d1"),
                           LegacyDict("d1", "READ_WRITE")>>
    /\ params.disks.v = <<NewDisk("d2", "READ_WRITE", 0), NewDisk("d1", "READ_ONLY", 1),
                          NewDisk("d1", "READ_WRITE", 2)>>
    /\ CallCount("create_node", params.name) = 1

\* the fetch of delete_instance_by_name() was the last remote call
FetchWasLast == Len(calls) > 0 /\ calls[Len(calls)][1] = "ex_get_node"

\* C19: in a gce delete, (a) a name that does not exist remotely is not an
\* error: a single-name run with no remote failure ends in exit_json with
\* changed=false and no destroy_node; (b) a run that ends in fail_json right
\* after the fetch carries changed=false and issued no destroy_node for that
\* fetch; (c) every destroy_node comes directly after a fetch of the same
\* name that returned an instance.
C19_DeleteFetchOutcomes ==
    (module = "gce" /\ WantsAbsent) =>
      /\ (Done /\ ~faulted /\ params.name # None /\ params.name \notin nodes0) =>
            /\ Succeeded(FALSE)
            /\ fetched = <<"ResourceNotFoundError">>
            /\ "destroy_node" \notin CalledOps
      /\ (outcome = "fail_json" /\ FetchWasLast) =>
            /\ "changed" \in result.keys /\ ~result.changed
            /\ Len(IssuedOn("destroy_node")) < Len(IssuedOn("ex_get_node"))
            /\ nodes = nodes0 \ MutatedNodes
      /\ \A i \in 1..Len(calls) :
            calls[i][1] = "destroy_node" =>
              /\ i > 1 /\ calls[i - 1] = <<"ex_get_node", calls[i][2]>>
              /\ calls[i][2] \in nodes0
      /\ Len(IssuedOn("destroy_node"))
            <= Cardinality({i \in 1..Len(fetched) : fetched[i] = "found"})

\* the fetch of an existing instance failed: fail_json, nothing destroyed
C19_Witness ==
    /\ module = "gce" /\ WantsAbsent /\ params.name \in nodes
    /\ outcome = "fail_json" /\ FetchWasLast
    /\ "changed" \in result.keys
    /\ "destroy_node" \notin CalledOps

\* the ways to list 1..n in an order
Orders(n) == {f \in [1..n -> 1..n] : \A a, b \in 1..n : f[a] = f[b] => a = b}

\* `names` lists the disks of `ds` by ascending index, equal indexes in the
\* order of `ds`
ListsByIndex(names, ds) ==
    /\ Len(names) = Len(ds)
    /\ \E f \in Orders(Len(ds)) :
         /\ \A k \in 1..Len(ds) : names[k] = DiskNameOf(ds[f[k]])
         /\ \A k \in 1..(Len(ds) - 1) :
              \/ ds[f[k]].index < ds[f[k + 1]].index
              \/ ds[f[k]].index = ds[f[k + 1]].index /\ f[k] < f[k + 1]

\* C20 as claimed: get_instance_info returns a record for every instance
\* object and raises nothing; an absent image, network interface, disks,
\* metadata, public address, private address, status, tags or zone comes out
\* as null or empty; the disk names are listed by ascending index, equal
\* indexes in insertion order.
C20_InstanceInfoTotal ==
    pc = "get_instance_info returned" =>
      /\ info_out.exc = None
      /\ info_out.name = info_inst.name
      /\ ~info_inst.image.set => info_out.image = None
      /\ ("networkInterfaces" \notin info_inst.has \/ Len(info_inst.networks) = 0)
            => info_out.network = None
      /\ "disks" \notin info_inst.has => info_out.disks = <<>>
      /\ "disks" \in info_inst.has => ListsByIndex(info_out.disks, info_inst.disks)
      /\ ("metadata" \notin info_inst.has \/ ~info_inst.metadata_items.set)
            => info_out.metadata = {}
      /\ Len(info_inst.public_ips) = 0 => info_out.public_ip = None
      /\ Len(info_inst.private_ips) = 0 => info_out.private_ip = None
      /\ "status" \notin info_inst.has => info_out.status = None
      /\ "tags" \notin info_inst.has => info_out.tags = <<>>
      /\ "zone" \notin info_inst.has => info_out.zone = None

\* C20, where it holds: the same, for instance objects that have a private
\* address.
C20_InstanceInfoWithPrivateAddress ==
    Len(info_inst.private_ips) > 0 => C20_InstanceInfoTotal

\* the names of the module's kind that existed when the first invocation ended
ExistingAfterFirst == IF module = "gce" THEN first.nodes ELSE first.kube[module]

\* C21 as claimed: when an invocation of gce, kubernetes_namespace,
\* kubernetes_pod or kubernetes_service with state present or absent for a
\* name has ended in exit_json, the name exists remotely iff the state is
\* present; and the invocation that follows with the same parameters, no
\* remote call failing, leaves the remote state as it found it and ends in
\* exit_json with changed=false.
C21_SecondRunUnchanged ==
    (first.ended /\ ~faulted /\ (WantsPresent \/ WantsAbsent)) =>
      /\ params0.name \in ExistingAfterFirst <=> WantsPresent
      /\ <<nodes, volumes, kube>> = <<first.nodes, first.volumes, first.kube>>
      /\ Done => Succeeded(FALSE)

\* C21, where it holds: the same, for runs that are not given boot_disk with
\* boot_disk_use_existing=no and whose first invocation did not report a
\* deletion that destroy_node refused.
C21_SecondRunUnchangedOtherwise ==
    ( /\ params0.boot_disk = None \/ params0.boot_disk_use_existing
      /\ ~(WantsAbsent /\ params0.name \in ExistingAfterFirst) )
    => C21_SecondRunUnchanged

=============================================================================
